---- MODULE Spec2Model ----
(***************************************************************************)
(* Korean vowel mood analyzer (app.py): extract_vowels, analyze_vowels,     *)
(* label_mood and sliding_window_analysis.                                  *)
(*                                                                          *)
(* Text is a sequence of Unicode codepoints (integers).  Python floats are  *)
(* IEEE-754 binary64 values, modelled bit-exactly as records                *)
(*   [sgn |-> -1 | 0 | 1, exp |-> e, hi |-> h, lo |-> l]                    *)
(* standing for sgn * (h * 2^27 + l) * 2^(e - 52), where the 53-bit         *)
(* significand h * 2^27 + l has its top bit set (2^25 <= h < 2^26 and       *)
(* 0 <= l < 2^27), or for zero when sgn = 0.  Two limbs keep every          *)
(* intermediate value below 2^31.                                           *)
(***************************************************************************)
EXTENDS Integers, Sequences, FiniteSets

(***************************************************************************)
(* binary64 arithmetic                                                      *)
(***************************************************************************)
\* Bits of the high and of the low limb of the 53-bit significand.
HiBits == 26

LoBits == 27

HiTop == 2^HiBits

LoTop == 2^LoBits

FZero == [sgn |-> 0, exp |-> 0, hi |-> 0, lo |-> 0]

FNeg(x) == [x EXCEPT !.sgn = -x.sgn]

\* The magnitude m with the sign s.
Signed(s, m) == [sgn |-> s, exp |-> m.exp, hi |-> m.hi, lo |-> m.lo]

\* Scale p/q into [1, 2) by powers of two: <<p', q', e>> with p/q = (p'/q') * 2^e.
RECURSIVE Normalize(_, _, _)
Normalize(p, q, e) ==
    IF p < q THEN Normalize(2 * p, q, e - 1)
    ELSE IF p >= 2 * q THEN Normalize(p, 2 * q, e + 1)
    ELSE <<p, q, e>>

\* k further quotient bits of r/q (r < q) by long division, appended to the
\* integer acc: <<quotient bits, remainder>>.
RECURSIVE DivBits(_, _, _, _)
DivBits(r, q, k, acc) ==
    IF k = 0 THEN <<acc, r>>
    ELSE IF 2 * r >= q THEN DivBits(2 * r - q, q, k - 1, 2 * acc + 1)
    ELSE DivBits(2 * r, q, k - 1, 2 * acc)

\* The low limb after the high limb h = <<bits, remainder>>.
TruncLo(e, den, hi, l) ==
    [exp |-> e, hi |-> hi, lo |-> l[1], rem |-> l[2], den |-> den]

\* The high limb (its top bit is the leading 1) of the scaled quotient nz.
TruncHi(e, den, h) == TruncLo(e, den, h[1], DivBits(h[2], den, LoBits, 0))

TruncNorm(nz) == TruncHi(nz[3], nz[2], DivBits(nz[1] - nz[2], nz[2], HiBits - 1, 1))

\* p/q (p, q > 0) truncated to 53 significant bits, with the remainder left over.
DivTrunc(p, q) == TruncNorm(Normalize(p, q, 0))

\* A truncated magnitude rounded up by one unit in the last place.
RoundUp(e, h, l) ==
    IF l + 1 < LoTop THEN [exp |-> e, hi |-> h, lo |-> l + 1]
    ELSE IF h + 1 < HiTop THEN [exp |-> e, hi |-> h + 1, lo |-> 0]
    ELSE [exp |-> e + 1, hi |-> HiTop \div 2, lo |-> 0]

\* Round to nearest, ties to even: up says the discarded part exceeds half a
\* unit in the last place, tie that it is exactly half.
RoundNearest(e, h, l, up, tie) ==
    IF up \/ (tie /\ (l % 2) = 1) THEN RoundUp(e, h, l)
    ELSE [exp |-> e, hi |-> h, lo |-> l]

RoundQuotient(t) == RoundNearest(t.exp, t.hi, t.lo, 2 * t.rem > t.den, 2 * t.rem = t.den)

\* Correctly rounded quotient of two positive integers.
MagDiv(p, q) == RoundQuotient(DivTrunc(p, q))

\* The float nearest to the rational p/q (q > 0): int / int, and the value of a
\* decimal literal p/q.
FDiv(p, q) ==
    IF p = 0 THEN FZero
    ELSE Signed(IF p < 0 THEN -1 ELSE 1, MagDiv(IF p < 0 THEN -p ELSE p, q))

\* Order of two non-zero magnitudes: -1, 0 or 1.
MagCmp(x, y) ==
    IF x.exp # y.exp THEN (IF x.exp > y.exp THEN 1 ELSE -1)
    ELSE IF x.hi # y.hi THEN (IF x.hi > y.hi THEN 1 ELSE -1)
    ELSE IF x.lo # y.lo THEN (IF x.lo > y.lo THEN 1 ELSE -1)
    ELSE 0

\* Order of two floats: -1, 0 or 1.
FCmp(x, y) ==
    IF x.sgn # y.sgn THEN (IF x.sgn > y.sgn THEN 1 ELSE -1)
    ELSE IF x.sgn = 0 THEN 0
    ELSE x.sgn * MagCmp(x, y)

\* Fault variant of FGe: > written for >=.
FGe_strict(x, y) == FCmp(x, y) > 0

FGe(x, y) == FCmp(x, y) >= 0

FLe(x, y) == FCmp(x, y) <= 0

\* Shift a three-limb value <<h, l, g>> (g: 27 guard bits) left until the top bit
\* of h is set, lowering the exponent by one per shift: <<h, l, g, e>>.
RECURSIVE ShiftUp(_, _, _, _)
ShiftUp(h, l, g, e) ==
    IF h >= HiTop \div 2 THEN <<h, l, g, e>>
    ELSE ShiftUp(2 * h + ((2 * l) \div LoTop),
                 ((2 * l) % LoTop) + ((2 * g) \div LoTop),
                 ((2 * g) % LoTop),
                 e - 1)

RoundGuard(s) == RoundNearest(s[4], s[1], s[2], s[3] > LoTop \div 2, s[3] = LoTop \div 2)

\* x - <<yh, yl, yg>> with borrows, the subtrahend aligned to x's exponent.
SubLimbs(x, yh, yl, yg) ==
    RoundGuard(ShiftUp(
        x.hi - yh - (IF x.lo - yl - (IF yg > 0 THEN 1 ELSE 0) < 0 THEN 1 ELSE 0),
        (x.lo - yl - (IF yg > 0 THEN 1 ELSE 0)) % LoTop,
        (LoTop - yg) % LoTop,
        x.exp))

\* Exact difference of magnitudes x > y > 0, rounded to nearest, ties to even.
\* y is shifted right by the difference k of the exponents; k is at most 27 (both
\* operands are count/total ratios), so 27 guard bits hold the difference exactly.
AlignSub(x, y, k) ==
    SubLimbs(x,
             y.hi \div 2^k,
             ((y.hi % 2^k) * 2^(LoBits - k)) + (y.lo \div 2^k),
             (y.lo % 2^k) * 2^(LoBits - k))

MagSub(x, y) == AlignSub(x, y, x.exp - y.exp)

\* The difference of two distinct non-zero magnitudes, c being their order.
OrderedSub(c, x, y) ==
    IF c = 0 THEN FZero
    ELSE Signed(c, MagSub(IF c > 0 THEN x ELSE y, IF c > 0 THEN y ELSE x))

\* x - y for floats x, y >= 0 (the operands here are ratios in [0, 1]).
FSub(x, y) ==
    IF y.sgn = 0 THEN x
    ELSE IF x.sgn = 0 THEN FNeg(y)
    ELSE OrderedSub(MagCmp(x, y), x, y)

\* Order of a magnitude x against a truncated quotient t.
CmpTrunc(c, t) == IF c # 0 THEN c ELSE IF t.rem > 0 THEN -1 ELSE 0

CmpQuotient(x, t) == CmpTrunc(MagCmp(x, t), t)

\* Order of a non-zero magnitude x against the rational p/q (p, q > 0), exactly.
MagCmpRat(x, p, q) == CmpQuotient(x, DivTrunc(p, q))

\* The scale 10^4 of the 4 digits kept by round(value, 4).
RoundScale == 10000

\* r is the integer nearest to |x| * 10^4, ties to even: |x| lies between
\* (2r - 1) / (2 * 10^4) and (2r + 1) / (2 * 10^4).
IsNearest(x, r) ==
    /\ \/ r = 0
       \/ MagCmpRat(x, 2 * r - 1, 2 * RoundScale) >= (IF r % 2 = 0 THEN 0 ELSE 1)
    /\ MagCmpRat(x, 2 * r + 1, 2 * RoundScale) <= (IF r % 2 = 0 THEN 0 ELSE -1)

\* The nearest integer is low, low + 1 or low + 2.
NearestFrom(x, low) == CHOOSE r \in low..(low + 2) : IsNearest(x, r)

\* The integer nearest to |x| * 10^4 for a float |x| <= 1, ties to even, decided
\* on the exact binary value as float.__round__ does.  The top 16 bits of the
\* significand place it within one unit; exact comparisons settle it.
NearestScaled(x) ==
    NearestFrom(x, IF 15 - x.exp > 30 THEN 0
                   ELSE ((x.hi \div 2^(HiBits - 16)) * RoundScale) \div 2^(15 - x.exp))

\* round(x, 4): the float nearest to the correctly rounded 4-decimal value of x.
Round4(x) ==
    IF x.sgn = 0 THEN FZero ELSE FDiv(x.sgn * NearestScaled(x), RoundScale)

(***************************************************************************)
(* Unicode: canonical decomposition (NFD) of the codepoints used here       *)
(***************************************************************************)
\* Hangul syllable block U+AC00.. and the conjoining jamo it decomposes into:
\* leading consonants from U+1100, medial vowels from U+1161, trailing
\* consonants after U+11A7.
SBase == 44032

LBase == 4352

VBase == 4449

TBase == 4519

VCount == 21

TCount == 28

\* Syllables: 19 leading consonants * 21 vowels * 28 trailing slots.
SCount == 11172

\* Fault variant of Decompose: compatibility decomposition (NFKD), which also
\* maps the compatibility vowel jamo U+314F..U+3163 onto the medial vowels.
Decompose_compat(ch) ==
    IF ch >= SBase /\ ch < SBase + SCount
    THEN <<LBase + ((ch - SBase) \div (VCount * TCount)),
           VBase + (((ch - SBase) % (VCount * TCount)) \div TCount)>>
         \o (IF (ch - SBase) % TCount = 0 THEN <<>> ELSE <<TBase + ((ch - SBase) % TCount)>>)
    ELSE IF ch >= 12623 /\ ch <= 12643 THEN <<ch - 12623 + VBase>>
    ELSE <<ch>>

\* unicodedata.normalize("NFD", ch) for one codepoint: a precomposed syllable
\* splits into leading consonant, medial vowel and, if present, trailing
\* consonant; conjoining jamo, compatibility jamo (U+3131..U+3163) and ASCII
\* have no canonical decomposition.
Decompose(ch) ==
    IF ch >= SBase /\ ch < SBase + SCount
    THEN LET s == ch - SBase
             l == LBase + (s \div (VCount * TCount))
             v == VBase + ((s % (VCount * TCount)) \div TCount)
             t == TBase + (s % TCount)
         IN  IF t = TBase THEN <<l, v>> ELSE <<l, v, t>>
    ELSE <<ch>>

\* unicodedata.normalize("NFD", line): the decompositions in order (jamo have
\* combining class 0, so no reordering applies).
RECURSIVE Normalize_NFD(_)
Normalize_NFD(line) ==
    IF line = <<>> THEN <<>>
    ELSE Decompose(Head(line)) \o Normalize_NFD(Tail(line))

(***************************************************************************)
(* Module constants.  A str is a sequence of codepoints; a vowel symbol is  *)
(* a str of one codepoint.                                                  *)
(***************************************************************************)
\* codepoint of the medial vowel -> compatibility-jamo glyph
JUNG_TO_VOWEL ==
    LET table == { <<4449, <<12623>> >>,    \* U+1161 -> U+314F
                   <<4451, <<12625>> >>,    \* U+1163 -> U+3151
                   <<4453, <<12627>> >>,    \* U+1165 -> U+3153
                   <<4455, <<12629>> >>,    \* U+1167 -> U+3155
                   <<4457, <<12631>> >>,    \* U+1169 -> U+3157
                   <<4461, <<12635>> >>,    \* U+116D -> U+315B
                   <<4462, <<12636>> >>,    \* U+116E -> U+315C
                   <<4466, <<12640>> >>,    \* U+1172 -> U+3160
                   <<4467, <<12641>> >>,    \* U+1173 -> U+3161
                   <<4469, <<12643>> >>,    \* U+1175 -> U+3163
                   <<4458, <<12632>> >>,    \* U+116A -> U+3158
                   <<4459, <<12633>> >>,    \* U+116B -> U+3159
                   <<4460, <<12634>> >>,    \* U+116C -> U+315A
                   <<4463, <<12637>> >>,    \* U+116F -> U+315D
                   <<4464, <<12638>> >>,    \* U+1170 -> U+315E
                   <<4465, <<12639>> >>,    \* U+1171 -> U+315F
                   <<4468, <<12642>> >> }   \* U+1174 -> U+3162
    IN  [ch \in {e[1] : e \in table} |-> (CHOOSE e \in table : e[1] = ch)[2]]

\* U+314F U+3151 U+3157 U+315B U+3158 U+3159 U+315A
BRIGHT == <<12623, 12625, 12631, 12635, 12632, 12633, 12634>>

\* U+3153 U+3155 U+315C U+3160 U+315D U+315E U+315F
DARK == <<12627, 12629, 12636, 12640, 12637, 12638, 12639>>

\* U+3161 U+3163 U+3162
NEUTRAL == <<12641, 12643, 12642>>

(***************************************************************************)
(* The functions                                                            *)
(***************************************************************************)
\* The scan of extract_vowels over the normalized text.
RECURSIVE ScanVowels(_)
ScanVowels(norm) ==
    IF norm = <<>> THEN <<>>
    ELSE IF Head(norm) \in DOMAIN JUNG_TO_VOWEL
         THEN <<JUNG_TO_VOWEL[Head(norm)]>> \o ScanVowels(Tail(norm))
         ELSE ScanVowels(Tail(norm))

extract_vowels(line) == ScanVowels(Normalize_NFD(line))

\* "".join(list of str)
RECURSIVE Join(_)
Join(strs) == IF strs = <<>> THEN <<>> ELSE Head(strs) \o Join(Tail(strs))

\* Fault variant of Count: membership in set(vowels) instead of a Counter.
Count_distinct(vowels, v) == IF \E k \in 1..Len(vowels) : vowels[k] = v THEN 1 ELSE 0

\* Counter(vowels)[v]: occurrences of v, 0 when absent.
Count(vowels, v) == Cardinality({k \in 1..Len(vowels) : vowels[k] = v})

\* sum(counts[v] for v in group), v running over the characters of group.
RECURSIVE GroupSum(_, _)
GroupSum(vowels, group) ==
    IF group = <<>> THEN 0
    ELSE Count(vowels, <<Head(group)>>) + GroupSum(vowels, Tail(group))

\* analyze_vowels, the non-empty case: bright_index and neutrality from the three
\* ratios, and the returned tuple as a record, together with the three category
\* sums and the number of divisions performed.
Indexes(counts, total, bright, dark, neutral, bright_ratio, dark_ratio, neutral_ratio) ==
    [counts |-> counts, total |-> total,
     bright |-> bright, dark |-> dark, neutral |-> neutral,
     bright_ratio |-> bright_ratio, dark_ratio |-> dark_ratio,
     neutral_ratio |-> neutral_ratio,
     bright_index |-> FSub(bright_ratio, dark_ratio),
     neutrality |-> neutral_ratio, divisions |-> 3]

\* analyze_vowels, the non-empty case: the three ratios from the category sums.
Ratios(counts, total, bright, dark, neutral) ==
    Indexes(counts, total, bright, dark, neutral,
            FDiv(bright, total), FDiv(dark, total), FDiv(neutral, total))

\* Counter(vowels)
Counter(vowels) == [v \in {vowels[k] : k \in 1..Len(vowels)} |-> Count(vowels, v)]

\* analyze_vowels: total is the sum of the counts, the length of the list.
analyze_vowels(vowels) ==
    IF Len(vowels) = 0
    THEN [counts |-> Counter(vowels), total |-> 0,
          bright |-> 0, dark |-> 0, neutral |-> 0,
          bright_ratio |-> FZero, dark_ratio |-> FZero, neutral_ratio |-> FZero,
          bright_index |-> FZero, neutrality |-> FZero, divisions |-> 0]
    ELSE Ratios(Counter(vowels), Len(vowels),
                GroupSum(vowels, BRIGHT), GroupSum(vowels, DARK), GroupSum(vowels, NEUTRAL))

\* The float literals 0.15 and 0.45 of label_mood.
BrightThreshold == FDiv(15, 100)

NeutralThreshold == FDiv(45, 100)

\* label_mood.  The labels stand for the Korean literals of the source:
\* "Bright", "Dark", "Neutral/Soft" and the suffix " (Calm/Subdued)".
\* Fault variant of Qualify: the comparison turned round.
Qualify_flipped(mood, neutrality) ==
    IF FLe(neutrality, NeutralThreshold) THEN mood \o " (Calm/Subdued)" ELSE mood

Qualify(mood, neutrality) ==
    IF FGe(neutrality, NeutralThreshold) THEN mood \o " (Calm/Subdued)" ELSE mood

label_mood(bright_index, neutrality) ==
    Qualify(IF FGe(bright_index, BrightThreshold) THEN "Bright"
            ELSE IF FLe(bright_index, FNeg(BrightThreshold)) THEN "Dark"
            ELSE "Neutral/Soft",
            neutrality)

\* all_vowels[i:j] with 0 <= i <= j: the items at 0-based positions i .. j-1,
\* cut off at the end of the list.
Slice(all_vowels, i, j) ==
    SubSeq(all_vowels, i + 1, IF j > Len(all_vowels) THEN Len(all_vowels) ELSE j)

\* The early return of sliding_window_analysis.
NoWindows(all_vowels, n) == n <= 0 \/ Len(all_vowels) < n

\* Fault variant of WindowStarts: range(len(all_vowels) - n).
WindowStarts_short(all_vowels, n) == 0..(Len(all_vowels) - n - 1)

\* range(len(all_vowels) - n + 1)
WindowStarts(all_vowels, n) == 0..(Len(all_vowels) - n)

\* Fault variant of WindowResult: "end" one past the window.
WindowResult_end(i, n, window, bidx, neu, mood) ==
    [start |-> i,
     end |-> i + n,
     window |-> Join(window),
     BrightIndex |-> Round4(bidx),
     Neutrality |-> Round4(neu),
     label |-> mood]

\* The dict appended for the window starting at i, from the window, the floats
\* bidx and neu that analyze_vowels returned for it, and its label.
WindowResult(i, n, window, bidx, neu, mood) ==
    [start |-> i,
     end |-> i + n - 1,
     window |-> Join(window),
     BrightIndex |-> Round4(bidx),
     Neutrality |-> Round4(neu),
     label |-> mood]

(***************************************************************************)
(* State                                                                    *)
(***************************************************************************)
VARIABLES
    pc,         \* the call in progress
    line,       \* extract_vowels: its argument
    vowels,     \* the vowel list: extract_vowels' return value, the argument of
                \* analyze_vowels and of sliding_window_analysis
    stats,      \* analyze_vowels: the value returned by the last call
    mood,       \* label_mood: the value returned by the last call
    lit,        \* label_mood called on literals: the decimal fractions written
    n,          \* sliding_window_analysis: the window width
    i,          \* sliding_window_analysis: the loop index
    results     \* sliding_window_analysis: the results list

vars == <<pc, line, vowels, stats, mood, lit, n, i, results>>

\* Not yet returned by any call.
NoStats == [called |-> FALSE]

NoMood == "None"

NoLit == [bp |-> 0, bq |-> 1, np |-> 0, nq |-> 1]

(***************************************************************************)
(* Inputs                                                                   *)
(***************************************************************************)
\* Longest input line, in codepoints.
MaxLineLen == 2

\* Longest vowel list handed to analyze_vowels directly.
MaxScoreLen == 2

\* Longest vowel list handed to sliding_window_analysis, all lists up to it.
MaxWinLen == 3

\* Width of the long windows, and the runs of equal symbols they are cut from.
LongWidth == 20

\* Literals k/100 for |k| up to GridMax.
GridMax == 50

SeqsUpTo(S, k) == UNION {[1..m -> S] : m \in 0..k}

\* The 21 medial vowels U+1161..U+1175 and their glyphs U+314F..U+3163.
Jungseong == VBase..(VBase + VCount - 1)

VowelSymbols == {<<12623 + k>> : k \in 0..(VCount - 1)}

\* One precomposed syllable per medial vowel, with varying leading consonants
\* and with and without a trailing consonant.
Syllables ==
    {SBase + (((v % 19) * VCount + v) * TCount) + ((5 * v) % TCount) : v \in 0..(VCount - 1)}

\* Conjoining jamo (a leading consonant, two medial vowels, a trailing
\* consonant), compatibility jamo (a vowel, a consonant) and ASCII.
OtherChars == {4352, 4449, 4450, 4520, 12623, 12593, 97, 32, 33}

Lines == SeqsUpTo(Syllables \cup OtherChars, MaxLineLen)

ScoreInputs == SeqsUpTo(VowelSymbols, MaxScoreLen)

\* A bright, a dark and a neutral symbol, and one outside the three groups.
WinSymbols == {<<12623>>, <<12627>>, <<12643>>, <<12624>>}

Run(v, k) == [j \in 1..k |-> v]

\* Runs of a bright, a dark and a neutral symbol, LongWidth or one more in all.
LongInputs ==
    {Run(<<12623>>, a) \o Run(<<12627>>, b) \o Run(<<12643>>, c) :
        <<a, b, c>> \in {t \in (0..(LongWidth + 1)) \X (0..(LongWidth + 1)) \X (0..(LongWidth + 1)) :
                            t[1] + t[2] + t[3] \in {LongWidth, LongWidth + 1}}}

\* Decimal literals: the grid k/100, and the neighbours of the thresholds.
BrightLiterals ==
    {<<k, 100>> : k \in (-GridMax)..GridMax}
        \cup {<<1499999, 10000000>>, <<1500001, 10000000>>,
              <<-1499999, 10000000>>, <<-1500001, 10000000>>, <<1, 1>>, <<-1, 1>>}

NeutralLiterals ==
    {<<k, 100>> : k \in 0..GridMax}
        \cup {<<4499999, 10000000>>, <<4500001, 10000000>>, <<1, 1>>}

(***************************************************************************)
(* Actions                                                                  *)
(***************************************************************************)
\* vowels = extract_vowels(line)
ExtractVowels ==
    /\ pc = "extract"
    /\ vowels' = extract_vowels(line)
    /\ pc' = "analyze"
    /\ UNCHANGED <<line, stats, mood, lit, n, i, results>>

\* ..., bidx, neu = analyze_vowels(vowels)
AnalyzeVowels ==
    /\ pc = "analyze"
    /\ stats' = analyze_vowels(vowels)
    /\ pc' = "label"
    /\ UNCHANGED <<line, vowels, mood, lit, n, i, results>>

\* mood = label_mood(bidx, neu)
LabelMood ==
    /\ pc = "label"
    /\ mood' = label_mood(stats.bright_index, stats.neutrality)
    /\ pc' = "done"
    /\ UNCHANGED <<line, vowels, stats, lit, n, i, results>>

\* label_mood(<literal>, <literal>)
LabelLiteral ==
    /\ pc = "literal"
    /\ mood' = label_mood(FDiv(lit.bp, lit.bq), FDiv(lit.np, lit.nq))
    /\ pc' = "done"
    /\ UNCHANGED <<line, vowels, stats, lit, n, i, results>>

\* sliding_window_analysis(vowels, n): the early return with no results.
SlidingReject ==
    /\ pc = "window"
    /\ NoWindows(vowels, n)
    /\ results' = <<>>
    /\ pc' = "done"
    /\ UNCHANGED <<line, vowels, stats, mood, lit, n, i>>

\* sliding_window_analysis(vowels, n): entering the loop.
SlidingEnter ==
    /\ pc = "window"
    /\ ~NoWindows(vowels, n)
    /\ results' = <<>>
    /\ i' = 0
    /\ pc' = "loop"
    /\ UNCHANGED <<line, vowels, stats, mood, lit, n>>

\* One iteration of the loop: slice, analyze, label, append.
SlidingStep ==
    /\ pc = "loop"
    /\ i \in WindowStarts(vowels, n)
    /\ stats' = analyze_vowels(Slice(vowels, i, i + n))
    /\ mood' = label_mood(stats'.bright_index, stats'.neutrality)
    /\ results' = Append(results,
           WindowResult(i, n, Slice(vowels, i, i + n),
                        stats'.bright_index, stats'.neutrality, mood'))
    /\ i' = i + 1
    /\ UNCHANGED <<pc, line, vowels, lit, n>>

\* The loop is exhausted: return results.
SlidingReturn ==
    /\ pc = "loop"
    /\ i \notin WindowStarts(vowels, n)
    /\ pc' = "done"
    /\ UNCHANGED <<line, vowels, stats, mood, lit, n, i, results>>

(***************************************************************************)
(* Specifications                                                           *)
(***************************************************************************)
Blank ==
    /\ line = <<>>
    /\ vowels = <<>>
    /\ stats = NoStats
    /\ mood = NoMood
    /\ lit = NoLit
    /\ n = 0
    /\ i = 0
    /\ results = <<>>

\* A line of text through extract_vowels, analyze_vowels and label_mood.
Init ==
    /\ pc = "extract"
    /\ line \in Lines
    /\ vowels = <<>> /\ stats = NoStats /\ mood = NoMood /\ lit = NoLit
    /\ n = 0 /\ i = 0 /\ results = <<>>

Next == ExtractVowels \/ AnalyzeVowels \/ LabelMood

Spec == Init /\ [][Next]_vars

\* A vowel list over the whole 21-symbol alphabet through analyze_vowels and
\* label_mood.
InitScore ==
    /\ pc = "analyze"
    /\ vowels \in ScoreInputs
    /\ line = <<>> /\ stats = NoStats /\ mood = NoMood /\ lit = NoLit
    /\ n = 0 /\ i = 0 /\ results = <<>>

NextScore == AnalyzeVowels \/ LabelMood

SpecScore == InitScore /\ [][NextScore]_vars

\* label_mood on literal arguments.
InitLabel ==
    /\ pc = "literal"
    /\ \E b \in BrightLiterals, u \in NeutralLiterals :
           lit = [bp |-> b[1], bq |-> b[2], np |-> u[1], nq |-> u[2]]
    /\ line = <<>> /\ vowels = <<>> /\ stats = NoStats /\ mood = NoMood
    /\ n = 0 /\ i = 0 /\ results = <<>>

NextLabel == LabelLiteral

SpecLabel == InitLabel /\ [][NextLabel]_vars

\* sliding_window_analysis on every short vowel list and every width around it.
InitWindow ==
    /\ pc = "window"
    /\ vowels \in SeqsUpTo(WinSymbols, MaxWinLen)
    /\ n \in (-1)..(MaxWinLen + 1)
    /\ line = <<>> /\ stats = NoStats /\ mood = NoMood /\ lit = NoLit
    /\ i = 0 /\ results = <<>>

NextWindow == SlidingReject \/ SlidingEnter \/ SlidingStep \/ SlidingReturn

SpecWindow == InitWindow /\ [][NextWindow]_vars

\* sliding_window_analysis with long windows.
InitLong ==
    /\ pc = "window"
    /\ vowels \in LongInputs
    /\ n \in {LongWidth, LongWidth + 2}
    /\ line = <<>> /\ stats = NoStats /\ mood = NoMood /\ lit = NoLit
    /\ i = 0 /\ results = <<>>

SpecLong == InitLong /\ [][NextWindow]_vars

(***************************************************************************)
(* Properties                                                               *)
(***************************************************************************)
Returned == pc = "done"

\* C1 (SpecWindow): sliding_window_analysis(seq, n) returns exactly
\* max(0, len(seq) - n + 1) results when n > 0 and none when n <= 0; a width
\* larger than the list, the empty list included, gives the empty list.
C1_ResultCount ==
    Returned =>
        Len(results) = IF n <= 0 \/ Len(vowels) - n + 1 < 0 THEN 0
                       ELSE Len(vowels) - n + 1

C1_Witness ==
    Returned /\ n = 2 /\ Len(vowels) = 3 /\ Len(results) = 2

\* C2 (SpecScore): for every non-empty list over the 21 vowel symbols, the
\* bright, dark and neutral counts of analyze_vowels each lie between 0 and total
\* and add up to total = len(list).
C2_CountsAddUp ==
    (pc \in {"label", "done"} /\ vowels # <<>>) =>
        /\ stats.total = Len(vowels)
        /\ {stats.bright, stats.dark, stats.neutral} \subseteq 0..stats.total
        /\ stats.bright + stats.dark + stats.neutral = stats.total

\* Occurrences of the codepoint ch in the str group.
Occurrences(ch, group) == Cardinality({k \in 1..Len(group) : group[k] = ch})

\* C3 (SpecScore): each of the 21 vowel symbols occurs exactly once in BRIGHT,
\* DARK and NEUTRAL taken together; stated of the symbols of the list, which
\* ranges over all 21.
C3_Partition ==
    \A k \in 1..Len(vowels) :
        Occurrences(vowels[k][1], BRIGHT) + Occurrences(vowels[k][1], DARK)
            + Occurrences(vowels[k][1], NEUTRAL) = 1

\* One glyph per medial vowel U+1161..U+1175 of the decomposed text, in order.
RECURSIVE MedialGlyphs(_)
MedialGlyphs(norm) ==
    IF norm = <<>> THEN <<>>
    ELSE IF Head(norm) \in Jungseong
         THEN << <<Head(norm) - VBase + 12623>> >> \o MedialGlyphs(Tail(norm))
         ELSE MedialGlyphs(Tail(norm))

\* C4 (Spec): extract_vowels(line) is, in order, one glyph for each of the 21
\* medial vowels in the decomposed line and nothing else, so a line of k
\* precomposed syllables gives k symbols.
C4_EveryMedialVowel ==
    pc # "extract" =>
        /\ vowels = MedialGlyphs(Normalize_NFD(line))
        /\ (\A k \in 1..Len(line) : line[k] \in Syllables) => Len(vowels) = Len(line)

\* C5 (SpecLabel): label_mood returns one of six labels; on the literals b and u
\* the primary label is Bright iff b >= 0.15, Dark iff b <= -0.15 and
\* Neutral/Soft otherwise, and the qualifier is appended iff u >= 0.45, whatever
\* the primary label.
C5_SixLabels ==
    Returned =>
        /\ mood = (IF 100 * lit.bp >= 15 * lit.bq THEN "Bright"
                   ELSE IF 100 * lit.bp <= (-15) * lit.bq THEN "Dark"
                   ELSE "Neutral/Soft")
                  \o (IF 100 * lit.np >= 45 * lit.nq THEN " (Calm/Subdued)" ELSE "")
        /\ mood \in {"Bright", "Dark", "Neutral/Soft", "Bright (Calm/Subdued)",
                     "Dark (Calm/Subdued)", "Neutral/Soft (Calm/Subdued)"}

C5_Witness ==
    /\ Returned
    /\ lit = [bp |-> 15, bq |-> 100, np |-> 45, nq |-> 100]
    /\ mood = "Bright (Calm/Subdued)"

\* C6 (Spec): the empty line gives the empty list, analyze_vowels on it returns
\* total 0 and five zero metrics without dividing, and label_mood on those gives
\* the unqualified Neutral/Soft.
C6_EmptyInput ==
    line = <<>> =>
        /\ pc # "extract" => vowels = <<>>
        /\ pc \in {"label", "done"} =>
               /\ stats.total = 0
               /\ stats.divisions = 0
               /\ \A f \in {"bright_ratio", "dark_ratio", "neutral_ratio",
                            "bright_index", "neutrality"} : stats[f] = FZero
        /\ Returned => mood = "Neutral/Soft"

C6_Witness ==
    Returned /\ line = <<>> /\ stats.total = 0 /\ mood = "Neutral/Soft"

\* C7 (SpecWindow): the k-th result (0-based) has start k, end k + n - 1 and the
\* text of the n symbols seq[k..k+n-1]; results come in ascending start order and,
\* on return with 1 <= n <= len(seq), every start 0..len(seq)-n appears once.
C7_WindowsInOrder ==
    /\ \A k \in 1..Len(results) :
           /\ results[k].start = k - 1
           /\ results[k].end = k + n - 2
           /\ k + n - 1 <= Len(vowels)
           /\ results[k].window = [j \in 1..n |-> vowels[k - 1 + j][1]]
    /\ (Returned /\ n >= 1 /\ n <= Len(vowels)) => Len(results) = Len(vowels) - n + 1

C7_Witness ==
    /\ Returned
    /\ vowels = << <<12623>>, <<12627>>, <<12643>> >>
    /\ n = 2
    /\ results[2].start = 1 /\ results[2].end = 2
    /\ results[2].window = <<12627, 12643>>

\* C8 as stated (Spec): extract_vowels applied to its own joined output returns
\* the same list.
C8_OutputIdempotent ==
    pc # "extract" => extract_vowels(Join(vowels)) = vowels

\* C8 as amended (Spec): extract_vowels applied to its own joined output returns
\* the empty list, the glyphs being compatibility jamo; what does not change the
\* result is decomposing the input first.
C8_InputIdempotent ==
    pc # "extract" =>
        /\ extract_vowels(Join(vowels)) = <<>>
        /\ extract_vowels(Normalize_NFD(line)) = vowels

C8_Witness ==
    pc = "analyze" /\ Len(line) = 2 /\ Len(vowels) = 2 /\ vowels[1] # vowels[2]

\* The category of a symbol under the table BRIGHT / DARK / NEUTRAL.
CategoryOf(v) ==
    IF \E k \in 1..Len(BRIGHT) : BRIGHT[k] = v[1] THEN "bright"
    ELSE IF \E k \in 1..Len(DARK) : DARK[k] = v[1] THEN "dark"
    ELSE IF \E k \in 1..Len(NEUTRAL) : NEUTRAL[k] = v[1] THEN "neutral"
    ELSE "none"

Bump(c, cat, d) == IF cat = "none" THEN c ELSE [c EXCEPT ![cat] = @ + d]

\* Running category counts of the window of width w starting at k (0-based):
\* counted on seq[0..w-1], then per step one symbol leaving, one entering.
RECURSIVE RunningCounts(_, _, _)
RunningCounts(seq, w, k) ==
    IF k = 0
    THEN [cat \in {"bright", "dark", "neutral"} |->
             Cardinality({j \in 1..w : CategoryOf(seq[j]) = cat})]
    ELSE Bump(Bump(RunningCounts(seq, w, k - 1), CategoryOf(seq[k]), -1),
              CategoryOf(seq[k + w]), 1)

\* The metrics and label of a window of width w from its category counts.
FromCounts(c, w) ==
    [bright_index |-> FSub(FDiv(c.bright, w), FDiv(c.dark, w)),
     neutrality |-> FDiv(c.neutral, w)]

SameAsRunning(c, k) ==
    /\ stats.bright = c.bright /\ stats.dark = c.dark /\ stats.neutral = c.neutral
    /\ stats.bright_index = FromCounts(c, n).bright_index
    /\ stats.neutrality = FromCounts(c, n).neutrality
    /\ results[k].label =
           label_mood(FromCounts(c, n).bright_index, FromCounts(c, n).neutrality)

\* C9 (SpecWindow): at every start index the running counts equal the category
\* counts analyze_vowels computes on that window, and give the same
\* bright_index, neutrality and label.
C9_RunningCounts ==
    (pc \in {"loop", "done"} /\ Len(results) >= 1) =>
        SameAsRunning(RunningCounts(vowels, n, Len(results) - 1), Len(results))

C9_Witness ==
    /\ pc = "loop" /\ i = 2 /\ n = 2
    /\ vowels = << <<12623>>, <<12623>>, <<12627>> >>
    /\ stats.bright = 1 /\ stats.dark = 1

====
